---- MODULE Spec2Model ----
(***************************************************************************)
(* Model of the SkillSwap application (Django): src/core/views.py,         *)
(* src/core/models.py, src/skillswap_project/settings.py.                  *)
(*                                                                         *)
(* The state is the relational store (the rows of User, Skill,            *)
(* SkillRequest, Review, Message, UserBlock, MessageRequest, Notification, *)
(* Meeting), the clock, and the outcome of the last request served (the    *)
(* view called, its caller, its argument and what the caller is told).     *)
(* Every action is one view of views.py, called by a logged-in user,       *)
(* carried out whole; SpecRace, SpecStatusRace and SpecBlockRace serve     *)
(* request_skill, start_skill_session and block_user statement by          *)
(* statement, to interleave two calls.                                     *)
(*                                                                         *)
(* Facts of the source the model rests on:                                 *)
(*  - views.py defines reject_request twice (lines 807 and 1532).  The     *)
(*    module binds the name to the later definition, so the view a URL     *)
(*    can reach is the staff-only one of lines 1532-1538; the definition   *)
(*    of lines 807-817 is shadowed and is modelled by no action.           *)
(*  - every notify_* function evaluates get_current_site(None) inside its  *)
(*    try block before it creates the Notification row.  settings.py       *)
(*    installs no django.contrib.sites and sets no SITE_ID, so the call    *)
(*    raises (RequestSite(None) reads None.get_host()), the except clause  *)
(*    swallows it and the row is not created.                              *)
(*  - send_chat_message, accept_message_request and reject_message_request *)
(*    query MessageRequest by the keywords sender and receiver, which are  *)
(*    not fields of the model (from_user, to_user): the ORM raises         *)
(*    FieldError when the query is built.                                  *)
(***************************************************************************)
EXTENDS Integers, Sequences, FiniteSets, Bags, TLC

VARIABLES
    skills,            \* Skill rows: skills[i] is the owner of the skill with id i
    requests,          \* SkillRequest rows: requests[i] is the row with id i
    notifications,     \* Notification rows in creation order
    messages,          \* Message rows in creation order (sent_at)
    blocks,            \* UserBlock rows: the bag of <<blocker, blocked>>, one copy per row
    message_requests,  \* MessageRequest rows: records from_user, to_user, status
    meetings,          \* Meeting rows: meetings[i] is the row with id i
    pc,                \* requests being served statement by statement: pc[p] is where request p stands
    now,               \* timezone.now(): one instant throughout these specifications
    users,             \* User rows: the users whose account exists
    reviews,           \* Review rows: reviews[i] is the row with id i
    last               \* the last request served and its response

vars == <<skills, requests, notifications, messages, blocks, message_requests, meetings, pc, now,
          users, reviews, last>>

skillVars == <<skills, requests>>
msgVars == <<messages, blocks, message_requests>>
meetingVars == <<meetings>>
accountVars == <<users, reviews>>

\* ---------------------------------------------------------------- bounds
MaxSkills == 1
MaxRequests == 2
MaxMessages == 1
MaxBlocks == 1
MaxStoredRequests == 1
MaxCascadeRequests == 2
MaxMeetings == 1
MaxInbox == 2
MaxStoredBlocks == 2
MaxReviews == 2
MaxStoredNotifications == 2

\* ---------------------------------------------------------------- users
Users == {"u1", "u2", "u3"}
\* auth User.is_staff (make_superuser promotes one user)
Staff == {"u3"}

NULL == "NULL"

\* the username of a URL that names no user
Nobody == "nobody"

\* a DateTimeField: the null value, and the value timezone.now() gives at time t
NoTime == <<>>
Stamp(t) == <<t>>

\* settings.py: INSTALLED_APPS holds no django.contrib.sites, and no SITE_ID is set
SitesAppInstalled == FALSE
SiteIdSet == FALSE

\* django.contrib.sites.shortcuts.get_current_site(request), as the notify_*
\* functions call it: with the sites app, Site.objects.get_current(request)
\* raises unless SITE_ID is set or a request is given; without it,
\* RequestSite(request) reads request.get_host(), which raises on None.
get_current_site_raises(hasRequest) ==
    IF SitesAppInstalled THEN ~SiteIdSet /\ ~hasRequest ELSE ~hasRequest

\* settings.py: DEBUG = True
DEBUG == TRUE

\* send_email_notification (views.py 54-86), mail_ok telling whether the mail
\* transport accepts the message: what the function returns to the notify_*
\* function that calls it.  With DEBUG nothing is sent; otherwise
\* email.send(fail_silently=False) raises when the transport fails, the
\* except clause logs it and True is returned all the same.
send_email_notification(mail_ok) ==
    IF DEBUG THEN TRUE
    ELSE IF mail_ok THEN TRUE
    ELSE TRUE

\* SkillRequest.status values the views write and compare
PENDING == "PENDING"
APPROVED == "APPROVED"
REJECTED == "REJECTED"
IN_PROGRESS == "IN_PROGRESS"
COMPLETED == "COMPLETED"

\* ---------------------------------------------------------------- requests in flight
\* the requests the server handles at the same time (worker threads)
Workers == {"w1", "w2"}

\* no request is between two of its statements
Idle == [p \in Workers |-> <<>>]

\* ---------------------------------------------------------------- responses
\* What the caller is told: the level of the flash message (or the HTTP
\* error) and the text, abbreviated.
Resp(op, user, arg, level, msg) ==
    [op |-> op, user |-> user, arg |-> arg, level |-> level, msg |-> msg]

NoCall == Resp("none", NULL, NULL, "none", "")

\* ---------------------------------------------------------------- notifications
\* a Notification as the notify functions create it (models.py 234-238):
\* unread, created_at set by auto_now_add
Notif(user, type) == [user |-> user, type |-> type, is_read |-> FALSE, created_at |-> now]

\* notify_skill_request: one row for the skill owner, unless the site lookup raises
notify_skill_request(req) ==
    IF get_current_site_raises(FALSE) THEN <<>>
    ELSE <<Notif(req.owner, "skill_request")>>

\* notify_request_status: one row for the requester
notify_request_status(req) ==
    IF get_current_site_raises(FALSE) THEN <<>>
    ELSE <<Notif(req.requester, "request_status")>>

\* notify_skill_session_start: one row for the requester
notify_skill_session_start(req) ==
    IF get_current_site_raises(FALSE) THEN <<>>
    ELSE <<Notif(req.requester, "skill_session")>>

\* notify_skill_session_complete: the loop over [requester, owner]; the first
\* iteration raises when the site lookup raises, and the except ends the loop
notify_skill_session_complete(req) ==
    IF get_current_site_raises(FALSE) THEN <<>>
    ELSE <<Notif(req.requester, "skill_completed"), Notif(req.owner, "skill_completed")>>

\* notify_new_message: one row for the recipient
notify_new_message(msg) ==
    IF get_current_site_raises(FALSE) THEN <<>>
    ELSE <<Notif(msg.to_user, "message")>>

\* ---------------------------------------------------------------- skill requests
SkillIds == 1..MaxSkills
RequestIds == 1..MaxRequests

ReqRow(skill, requester, owner, status) ==
    [skill |-> skill, requester |-> requester, owner |-> owner, status |-> status,
     started_at |-> NoTime, completed_at |-> NoTime]

\* SkillRequest.objects.filter(skill=, requester=): the ids of the matching rows
RequestsFor(skill, requester) ==
    {i \in DOMAIN requests : requests[i].skill = skill /\ requests[i].requester = requester}

\* QuerySet.first() on an unordered queryset orders by primary key
First(ids) == CHOOSE i \in ids : \A j \in ids : i <= j

\* request_skill's message for an existing request (views.py 703-712)
ExistingMessage(status) ==
    CASE status = PENDING -> "already requested: pending approval"
      [] status = APPROVED -> "your request has been approved"
      [] status = REJECTED -> "your previous request was rejected"
      [] status = COMPLETED -> "you have already completed learning this skill"
      [] OTHER -> "you have already requested this skill"

\* A sequence holding each element of the finite set S once
RECURSIVE SeqOf(_)
SeqOf(S) == IF S = {} THEN <<>> ELSE LET x == CHOOSE y \in S : TRUE IN <<x>> \o SeqOf(S \ {x})

\* notify_new_skill: one row per active user other than the owner (register
\* activates every user), unless the site lookup raises in the first iteration
notify_new_skill(owner) ==
    IF get_current_site_raises(FALSE) THEN <<>>
    ELSE [i \in 1..Cardinality(Users \ {owner}) |-> Notif(SeqOf(Users \ {owner})[i], "new_skill")]

\* create_skill (views.py 634-651): a valid form stores the skill with the
\* caller as owner and notifies; an invalid form renders the form again
create_skill(u, valid) ==
    /\ IF valid
       THEN /\ Len(skills) < MaxSkills
            /\ skills' = Append(skills, u)
            /\ notifications' = notifications \o notify_new_skill(u)
            /\ last' = Resp("create_skill", u, Len(skills) + 1, "success", "skill created")
       ELSE /\ UNCHANGED <<skills, notifications>>
            /\ last' = Resp("create_skill", u, NULL, "form", "form errors")
    /\ UNCHANGED <<requests, now>>
    /\ UNCHANGED <<msgVars, meetingVars, accountVars, pc>>

\* request_skill without the existence check of lines 695-713
request_skill_no_existing_check(u, s) ==
    /\ IF s \notin DOMAIN skills
       THEN /\ UNCHANGED <<requests, notifications>>
            /\ last' = Resp("request_skill", u, s, "404", "not found")
       ELSE IF skills[s] = u
       THEN /\ UNCHANGED <<requests, notifications>>
            /\ last' = Resp("request_skill", u, s, "error", "you cannot request your own skill")
       ELSE /\ Len(requests) < MaxRequests
            /\ requests' = Append(requests, ReqRow(s, u, skills[s], PENDING))
            /\ notifications' = notifications \o notify_skill_request(ReqRow(s, u, skills[s], PENDING))
            /\ last' = Resp("request_skill", u, s, "success", "request sent to skill owner")
    /\ UNCHANGED <<skills, now>>
    /\ UNCHANGED <<msgVars, meetingVars, accountVars, pc>>

\* request_skill (views.py 685-739)
request_skill(u, s) ==
    /\ IF s \notin DOMAIN skills
       THEN /\ UNCHANGED <<requests, notifications>>
            /\ last' = Resp("request_skill", u, s, "404", "not found")
       ELSE IF skills[s] = u
       THEN /\ UNCHANGED <<requests, notifications>>
            /\ last' = Resp("request_skill", u, s, "error", "you cannot request your own skill")
       ELSE IF RequestsFor(s, u) # {}
       THEN /\ UNCHANGED <<requests, notifications>>
            /\ last' = Resp("request_skill", u, s, "info",
                            ExistingMessage(requests[First(RequestsFor(s, u))].status))
       ELSE /\ Len(requests) < MaxRequests
            /\ requests' = Append(requests, ReqRow(s, u, skills[s], PENDING))
            /\ notifications' = notifications \o notify_skill_request(ReqRow(s, u, skills[s], PENDING))
            /\ last' = Resp("request_skill", u, s, "success", "request sent to skill owner")
    /\ UNCHANGED <<skills, now>>
    /\ UNCHANGED <<msgVars, meetingVars, accountVars, pc>>

\* start_skill_session without the status check of lines 751-754
start_skill_session_any_status(u, r) ==
    /\ IF r \notin DOMAIN requests
       THEN /\ UNCHANGED <<requests, notifications>>
            /\ last' = Resp("start_skill_session", u, r, "404", "not found")
       ELSE IF u # requests[r].owner
       THEN /\ UNCHANGED <<requests, notifications>>
            /\ last' = Resp("start_skill_session", u, r, "error", "only the skill owner can start a session")
       ELSE /\ requests' = [requests EXCEPT ![r].status = IN_PROGRESS, ![r].started_at = Stamp(now)]
            /\ notifications' = notifications \o notify_skill_session_start(requests[r])
            /\ last' = Resp("start_skill_session", u, r, "success", "skill session started")
    /\ UNCHANGED <<skills, now>>
    /\ UNCHANGED <<msgVars, meetingVars, accountVars, pc>>

\* start_skill_session (views.py 741-765)
start_skill_session(u, r) ==
    /\ IF r \notin DOMAIN requests
       THEN /\ UNCHANGED <<requests, notifications>>
            /\ last' = Resp("start_skill_session", u, r, "404", "not found")
       ELSE IF u # requests[r].owner
       THEN /\ UNCHANGED <<requests, notifications>>
            /\ last' = Resp("start_skill_session", u, r, "error", "only the skill owner can start a session")
       ELSE IF requests[r].status # APPROVED
       THEN /\ UNCHANGED <<requests, notifications>>
            /\ last' = Resp("start_skill_session", u, r, "error", "can only start sessions for approved requests")
       ELSE /\ requests' = [requests EXCEPT ![r].status = IN_PROGRESS, ![r].started_at = Stamp(now)]
            /\ notifications' = notifications \o notify_skill_session_start(requests[r])
            /\ last' = Resp("start_skill_session", u, r, "success", "skill session started")
    /\ UNCHANGED <<skills, now>>
    /\ UNCHANGED <<msgVars, meetingVars, accountVars, pc>>

\* complete_skill_session without the authorization check of lines 772-775
complete_skill_session_anyone(u, r) ==
    /\ IF r \notin DOMAIN requests
       THEN /\ UNCHANGED <<requests, notifications>>
            /\ last' = Resp("complete_skill_session", u, r, "404", "not found")
       ELSE IF requests[r].status # IN_PROGRESS
       THEN /\ UNCHANGED <<requests, notifications>>
            /\ last' = Resp("complete_skill_session", u, r, "error", "can only complete sessions that are in progress")
       ELSE /\ requests' = [requests EXCEPT ![r].status = COMPLETED, ![r].completed_at = Stamp(now)]
            /\ notifications' = notifications \o notify_skill_session_complete(requests[r])
            /\ last' = Resp("complete_skill_session", u, r, "success", "skill session completed")
    /\ UNCHANGED <<skills, now>>
    /\ UNCHANGED <<msgVars, meetingVars, accountVars, pc>>

\* complete_skill_session (views.py 767-791)
complete_skill_session(u, r) ==
    /\ IF r \notin DOMAIN requests
       THEN /\ UNCHANGED <<requests, notifications>>
            /\ last' = Resp("complete_skill_session", u, r, "404", "not found")
       ELSE IF u \notin {requests[r].owner, requests[r].requester}
       THEN /\ UNCHANGED <<requests, notifications>>
            /\ last' = Resp("complete_skill_session", u, r, "error", "not authorized to complete this session")
       ELSE IF requests[r].status # IN_PROGRESS
       THEN /\ UNCHANGED <<requests, notifications>>
            /\ last' = Resp("complete_skill_session", u, r, "error", "can only complete sessions that are in progress")
       ELSE /\ requests' = [requests EXCEPT ![r].status = COMPLETED, ![r].completed_at = Stamp(now)]
            /\ notifications' = notifications \o notify_skill_session_complete(requests[r])
            /\ last' = Resp("complete_skill_session", u, r, "success", "skill session completed")
    /\ UNCHANGED <<skills, now>>
    /\ UNCHANGED <<msgVars, meetingVars, accountVars, pc>>

\* accept_request (views.py 793-804): get_object_or_404(SkillRequest, id=, owner=caller),
\* then the status is written whatever it was
accept_request(u, r) ==
    /\ IF r \notin DOMAIN requests \/ (r \in DOMAIN requests /\ requests[r].owner # u)
       THEN /\ UNCHANGED <<requests, notifications>>
            /\ last' = Resp("accept_request", u, r, "404", "not found")
       ELSE /\ requests' = [requests EXCEPT ![r].status = APPROVED]
            /\ notifications' = notifications \o notify_request_status(requests[r])
            /\ last' = Resp("accept_request", u, r, "success", "request accepted")
    /\ UNCHANGED <<skills, now>>
    /\ UNCHANGED <<msgVars, meetingVars, accountVars, pc>>

\* approve_request (views.py 1522-1529): staff only, any request, any status
approve_request(u, r) ==
    /\ IF u \notin Staff
       THEN /\ UNCHANGED requests
            /\ last' = Resp("approve_request", u, r, "login", "redirected to the admin login")
       ELSE IF r \notin DOMAIN requests
       THEN /\ UNCHANGED requests
            /\ last' = Resp("approve_request", u, r, "404", "not found")
       ELSE /\ requests' = [requests EXCEPT ![r].status = APPROVED]
            /\ last' = Resp("approve_request", u, r, "success", "skill request has been approved")
    /\ UNCHANGED <<skills, notifications, now>>
    /\ UNCHANGED <<msgVars, meetingVars, accountVars, pc>>

\* reject_request (views.py 1531-1538, the binding of the name that shadows
\* lines 806-817): staff only, any request, any status
reject_request(u, r) ==
    /\ IF u \notin Staff
       THEN /\ UNCHANGED requests
            /\ last' = Resp("reject_request", u, r, "login", "redirected to the admin login")
       ELSE IF r \notin DOMAIN requests
       THEN /\ UNCHANGED requests
            /\ last' = Resp("reject_request", u, r, "404", "not found")
       ELSE /\ requests' = [requests EXCEPT ![r].status = REJECTED]
            /\ last' = Resp("reject_request", u, r, "success", "skill request has been rejected")
    /\ UNCHANGED <<skills, notifications, now>>
    /\ UNCHANGED <<msgVars, meetingVars, accountVars, pc>>

\* complete_request (views.py 819-829): no status check, no completed_at, no notification
complete_request(u, r) ==
    /\ IF r \notin DOMAIN requests
       THEN /\ UNCHANGED requests
            /\ last' = Resp("complete_request", u, r, "404", "not found")
       ELSE IF u \notin {requests[r].requester, requests[r].owner}
       THEN /\ UNCHANGED requests
            /\ last' = Resp("complete_request", u, r, "error", "not authorized")
       ELSE /\ requests' = [requests EXCEPT ![r].status = COMPLETED]
            /\ last' = Resp("complete_request", u, r, "success", "marked as completed")
    /\ UNCHANGED <<skills, notifications, now>>
    /\ UNCHANGED <<msgVars, meetingVars, accountVars, pc>>

\* test_email (views.py 1684-1711): when send_mail succeeds and a skill exists,
\* a PENDING request for Skill.objects.first() is created for the caller with
\* no check at all; when send_mail raises nothing is created
test_email(u, mail_ok) ==
    /\ IF ~mail_ok
       THEN /\ UNCHANGED <<requests, notifications>>
            /\ last' = Resp("test_email", u, NULL, "error", "email test failed")
       ELSE IF Len(skills) = 0
       THEN /\ UNCHANGED <<requests, notifications>>
            /\ last' = Resp("test_email", u, NULL, "success", "test emails sent")
       ELSE /\ Len(requests) < MaxRequests
            /\ requests' = Append(requests, ReqRow(1, u, skills[1], PENDING))
            /\ notifications' = notifications \o notify_skill_request(ReqRow(1, u, skills[1], PENDING))
            /\ last' = Resp("test_email", u, NULL, "success", "test emails sent")
    /\ UNCHANGED <<skills, now>>
    /\ UNCHANGED <<msgVars, meetingVars, accountVars, pc>>

\* ---------------------------------------------------------------- skill-request workflow
Init ==
    /\ skills = <<>>
    /\ requests = <<>>
    /\ notifications = <<>>
    /\ messages = <<>>
    /\ blocks = EmptyBag
    /\ message_requests = {}
    /\ meetings = <<>>
    /\ pc = Idle
    /\ users = Users
    /\ reviews = <<>>
    /\ now = 0
    /\ last = NoCall

Next ==
    \/ \E u \in Users, valid \in BOOLEAN : create_skill(u, valid)
    \/ \E u \in Users, s \in SkillIds : request_skill(u, s)
    \/ \E u \in Users, r \in RequestIds : start_skill_session(u, r)
    \/ \E u \in Users, r \in RequestIds : complete_skill_session(u, r)
    \/ \E u \in Users, r \in RequestIds : accept_request(u, r)
    \/ \E u \in Users, r \in RequestIds : approve_request(u, r)
    \/ \E u \in Users, r \in RequestIds : reject_request(u, r)
    \/ \E u \in Users, r \in RequestIds : complete_request(u, r)
    \/ \E u \in Users, mail_ok \in BOOLEAN : test_email(u, mail_ok)

Spec == Init /\ [][Next]_vars

\* ---------------------------------------------------------------- messaging
Msg(from, to) == [from_user |-> from, to_user |-> to, is_read |-> FALSE]

\* MessageRequest.STATUS_CHOICES (models.py 192-197)
MessageRequestStatuses == {"PENDING", "ACCEPTED", "DECLINED", "BLOCKED"}

MsgReq(from, to, status) == [from_user |-> from, to_user |-> to, status |-> status]

\* the fields of MessageRequest a query may name (models.py 199-204)
MessageRequestFields == {"id", "from_user", "to_user", "message", "status", "created_at", "updated_at"}

\* the ORM raises FieldError for a keyword that is no field of the model
FieldError(keywords) == ~(keywords \subseteq MessageRequestFields)

\* a Message exists between the two users, in either direction
History(a, b) ==
    \E i \in DOMAIN messages :
        \/ messages[i].from_user = a /\ messages[i].to_user = b
        \/ messages[i].from_user = b /\ messages[i].to_user = a

\* the MessageRequest rows between the two users, in either direction
RequestsBetween(a, b) ==
    {q \in message_requests :
        \/ q.from_user = a /\ q.to_user = b
        \/ q.from_user = b /\ q.to_user = a}

\* the stored tables of MessageRequest: at most MaxStoredRequests rows, one
\* per (from_user, to_user) (unique_together), between two different users,
\* with a status of STATUS_CHOICES
StoredRequestRows ==
    {MsgReq(a, b, st) : <<a, b, st>> \in {t \in Users \X Users \X MessageRequestStatuses : t[1] # t[2]}}

StoredRequestTables ==
    {T \in SUBSET StoredRequestRows :
        /\ Cardinality(T) <= MaxStoredRequests
        /\ \A q1, q2 \in T : (q1.from_user = q2.from_user /\ q1.to_user = q2.to_user) => q1 = q2}

\* send_message (views.py 901-924): the POST creates the Message with no check
send_message(u, to) ==
    /\ Len(messages) < MaxMessages
    /\ messages' = Append(messages, Msg(u, to))
    /\ notifications' = notifications \o notify_new_message(Msg(u, to))
    /\ last' = Resp("send_message", u, to, "success", "message sent")
    /\ UNCHANGED <<blocks, message_requests, now>>
    /\ UNCHANGED <<skillVars, meetingVars, accountVars, pc>>

\* reply_message (views.py 935-960): the POST creates the Message with no check
reply_message(u, to) ==
    /\ Len(messages) < MaxMessages
    /\ messages' = Append(messages, Msg(u, to))
    /\ notifications' = notifications \o notify_new_message(Msg(u, to))
    /\ last' = Resp("reply_message", u, to, "success", "reply sent")
    /\ UNCHANGED <<blocks, message_requests, now>>
    /\ UNCHANGED <<skillVars, meetingVars, accountVars, pc>>

\* send_chat_message, lines 1176-1209, reached when the lookup of line 1171
\* raises nothing: the statuses are compared with 'rejected' and 'pending',
\* and the first contact creates a MessageRequest by the keywords sender and
\* receiver, which the model's constructor refuses (TypeError)
send_chat_message_gate(u, to) ==
    IF RequestsBetween(u, to) # {} /\ (CHOOSE q \in RequestsBetween(u, to) : TRUE).status = "rejected"
    THEN /\ UNCHANGED <<messages, notifications>>
         /\ last' = Resp("send_chat_message", u, to, "error", "message request was rejected")
    ELSE IF RequestsBetween(u, to) # {} /\ (CHOOSE q \in RequestsBetween(u, to) : TRUE).status = "pending"
    THEN /\ UNCHANGED <<messages, notifications>>
         /\ last' = Resp("send_chat_message", u, to, "error", "message request is still pending")
    ELSE IF RequestsBetween(u, to) = {} /\ ~History(u, to)
    THEN /\ UNCHANGED <<messages, notifications>>
         /\ last' = Resp("send_chat_message", u, to, "500", "TypeError")
    ELSE /\ Len(messages) < MaxMessages
         /\ messages' = Append(messages, Msg(u, to))
         /\ notifications' = notifications \o notify_new_message(Msg(u, to))
         /\ last' = Resp("send_chat_message", u, to, "success", "message sent")

\* send_chat_message with the MessageRequest lookup ahead of the two block
\* checks
send_chat_message_request_check_first(u, to, content) ==
    /\ IF ~content
       THEN /\ UNCHANGED <<messages, notifications>>
            /\ last' = Resp("send_chat_message", u, to, "redirect", "nothing to send")
       ELSE IF FieldError({"sender", "receiver"})
       THEN /\ UNCHANGED <<messages, notifications>>
            /\ last' = Resp("send_chat_message", u, to, "500", "FieldError")
       ELSE IF BagIn(<<u, to>>, blocks)
       THEN /\ UNCHANGED <<messages, notifications>>
            /\ last' = Resp("send_chat_message", u, to, "error", "you have blocked this user")
       ELSE IF BagIn(<<to, u>>, blocks)
       THEN /\ UNCHANGED <<messages, notifications>>
            /\ last' = Resp("send_chat_message", u, to, "error", "this user has blocked you")
       ELSE send_chat_message_gate(u, to)
    /\ UNCHANGED <<blocks, message_requests, now>>
    /\ UNCHANGED <<skillVars, meetingVars, accountVars, pc>>

\* send_chat_message (views.py 1150-1211)
send_chat_message(u, to, content) ==
    /\ IF ~content
       THEN /\ UNCHANGED <<messages, notifications>>
            /\ last' = Resp("send_chat_message", u, to, "redirect", "nothing to send")
       ELSE IF BagIn(<<u, to>>, blocks)
       THEN /\ UNCHANGED <<messages, notifications>>
            /\ last' = Resp("send_chat_message", u, to, "error", "you have blocked this user")
       ELSE IF BagIn(<<to, u>>, blocks)
       THEN /\ UNCHANGED <<messages, notifications>>
            /\ last' = Resp("send_chat_message", u, to, "error", "this user has blocked you")
       ELSE IF FieldError({"sender", "receiver"})
       THEN /\ UNCHANGED <<messages, notifications>>
            /\ last' = Resp("send_chat_message", u, to, "500", "FieldError")
       ELSE send_chat_message_gate(u, to)
    /\ UNCHANGED <<blocks, message_requests, now>>
    /\ UNCHANGED <<skillVars, meetingVars, accountVars, pc>>

\* accept_message_request and reject_message_request (views.py 1821-1869):
\* MessageRequest.objects.get(sender=, receiver=, status='pending'), then the
\* status is written; every exception is answered with success: False
answer_message_request(op, u, sender, status) ==
    /\ IF FieldError({"sender", "receiver", "status"})
       THEN /\ UNCHANGED message_requests
            /\ last' = Resp(op, u, sender, "failure", "FieldError")
       ELSE IF MsgReq(sender, u, "pending") \notin message_requests
       THEN /\ UNCHANGED message_requests
            /\ last' = Resp(op, u, sender, "failure", "message request not found")
       ELSE /\ message_requests' = (message_requests \ {MsgReq(sender, u, "pending")})
                                       \cup {MsgReq(sender, u, status)}
            /\ last' = Resp(op, u, sender, "success", "")
    /\ UNCHANGED <<messages, blocks, notifications, now>>
    /\ UNCHANGED <<skillVars, meetingVars, accountVars, pc>>

accept_message_request(u, sender) == answer_message_request("accept_message_request", u, sender, "accepted")

reject_message_request(u, sender) == answer_message_request("reject_message_request", u, sender, "rejected")

\* decline_message_request (views.py 1871-1888): the request is looked up by
\* id and to_user=caller (the id is modelled by the row's pair); only a row
\* whose status is 'pending' is changed
decline_message_request(u, from, to) ==
    /\ IF to # u \/ \A q \in message_requests : ~(q.from_user = from /\ q.to_user = to)
       THEN /\ UNCHANGED message_requests
            /\ last' = Resp("decline_message_request", u, <<from, to>>, "failure", "not found")
       ELSE IF MsgReq(from, to, "pending") \in message_requests
       THEN /\ message_requests' = (message_requests \ {MsgReq(from, to, "pending")})
                                       \cup {MsgReq(from, to, "rejected")}
            /\ last' = Resp("decline_message_request", u, <<from, to>>, "success", "")
       ELSE /\ UNCHANGED message_requests
            /\ last' = Resp("decline_message_request", u, <<from, to>>, "failure", "message request already processed")
    /\ UNCHANGED <<messages, blocks, notifications, now>>
    /\ UNCHANGED <<skillVars, meetingVars, accountVars, pc>>

\* block_user without the update of lines 1765-1769
block_user_no_cascade(u, target) ==
    /\ IF u = target
       THEN /\ UNCHANGED <<blocks, message_requests>>
            /\ last' = Resp("block_user", u, target, "error", "you cannot block yourself")
       ELSE IF BagIn(<<u, target>>, blocks)
       THEN /\ UNCHANGED <<blocks, message_requests>>
            /\ last' = Resp("block_user", u, target, "success", "user was already blocked")
       ELSE /\ Cardinality(BagToSet(blocks)) < MaxBlocks
            /\ blocks' = blocks (+) SetToBag({<<u, target>>})
            /\ UNCHANGED message_requests
            /\ last' = Resp("block_user", u, target, "success", "you have blocked the user")
    /\ UNCHANGED <<messages, notifications, now>>
    /\ UNCHANGED <<skillVars, meetingVars, accountVars, pc>>

\* block_user (views.py 1723-1784)
block_user(u, target) ==
    /\ IF u = target
       THEN /\ UNCHANGED <<blocks, message_requests>>
            /\ last' = Resp("block_user", u, target, "error", "you cannot block yourself")
       ELSE IF BagIn(<<u, target>>, blocks)
       THEN /\ UNCHANGED <<blocks, message_requests>>
            /\ last' = Resp("block_user", u, target, "success", "user was already blocked")
       ELSE /\ Cardinality(BagToSet(blocks)) < MaxBlocks
            /\ blocks' = blocks (+) SetToBag({<<u, target>>})
            /\ message_requests' =
                  {IF q.from_user = target /\ q.to_user = u /\ q.status = "PENDING"
                   THEN MsgReq(target, u, "DECLINED") ELSE q : q \in message_requests}
            /\ last' = Resp("block_user", u, target, "success", "you have blocked the user")
    /\ UNCHANGED <<messages, notifications, now>>
    /\ UNCHANGED <<skillVars, meetingVars, accountVars, pc>>

\* unblock_user with a filter on the two users in either direction
unblock_user_either_direction(u, target) ==
    /\ blocks' = [x \in DOMAIN blocks \ {<<u, target>>, <<target, u>>} |-> blocks[x]]
    /\ last' = IF BagIn(<<u, target>>, blocks)
               THEN Resp("unblock_user", u, target, "success", "you have unblocked the user")
               ELSE Resp("unblock_user", u, target, "warning", "you had not blocked the user")
    /\ UNCHANGED <<messages, message_requests, notifications, now>>
    /\ UNCHANGED <<skillVars, meetingVars, accountVars, pc>>

\* unblock_user (views.py 1795-1819): filter(blocker=, blocked=).delete()
\* removes every row of the pair
unblock_user(u, target) ==
    /\ blocks' = [x \in DOMAIN blocks \ {<<u, target>>} |-> blocks[x]]
    /\ last' = IF BagIn(<<u, target>>, blocks)
               THEN Resp("unblock_user", u, target, "success", "you have unblocked the user")
               ELSE Resp("unblock_user", u, target, "warning", "you had not blocked the user")
    /\ UNCHANGED <<messages, message_requests, notifications, now>>
    /\ UNCHANGED <<skillVars, meetingVars, accountVars, pc>>

\* The messaging views on an empty store
InitMessaging ==
    /\ skills = <<>>
    /\ requests = <<>>
    /\ notifications = <<>>
    /\ messages = <<>>
    /\ blocks = EmptyBag
    /\ message_requests = {}
    /\ meetings = <<>>
    /\ pc = Idle
    /\ users = Users
    /\ reviews = <<>>
    /\ now = 0
    /\ last = NoCall

\* The messaging views on a store that holds MessageRequest rows already: no
\* view of views.py stores one (the one create call, line 1189, is never
\* reached and names no field of the model), so the rows the views read and
\* update are rows the table was given otherwise
InitStoredRequests ==
    /\ skills = <<>>
    /\ requests = <<>>
    /\ notifications = <<>>
    /\ messages = <<>>
    /\ blocks = EmptyBag
    /\ message_requests \in StoredRequestTables
    /\ meetings = <<>>
    /\ pc = Idle
    /\ users = Users
    /\ reviews = <<>>
    /\ now = 0
    /\ last = NoCall

NextMessaging ==
    \/ \E u \in Users, to \in Users : send_message(u, to)
    \/ \E u \in Users, to \in Users : reply_message(u, to)
    \/ \E u \in Users, to \in Users, content \in BOOLEAN : send_chat_message(u, to, content)
    \/ \E u \in Users, sender \in Users : accept_message_request(u, sender)
    \/ \E u \in Users, sender \in Users : reject_message_request(u, sender)
    \/ \E u \in Users, from \in Users, to \in Users : decline_message_request(u, from, to)
    \/ \E u \in Users, target \in Users : block_user(u, target)
    \/ \E u \in Users, target \in Users : unblock_user(u, target)

SpecMessaging == InitMessaging /\ [][NextMessaging]_vars

SpecStoredRequests == InitStoredRequests /\ [][NextMessaging]_vars

\* the tables of at most n MessageRequest rows, one per (from_user, to_user)
RECURSIVE RequestTablesUpTo(_)
RequestTablesUpTo(n) ==
    IF n = 0 THEN {{}}
    ELSE LET T == RequestTablesUpTo(n - 1)
         IN T \cup {t \cup {q} : <<t, q>> \in
                       {x \in T \X StoredRequestRows :
                           \A q2 \in x[1] : ~(q2.from_user = x[2].from_user /\ q2.to_user = x[2].to_user)}}

\* debug_userblock (views.py 1947-1973): UserBlock.objects.get_or_create with
\* the caller as blocker and as blocked
debug_userblock(u) ==
    /\ IF BagIn(<<u, u>>, blocks)
       THEN /\ UNCHANGED blocks
            /\ last' = Resp("debug_userblock", u, NULL, "success", "test block found")
       ELSE /\ Cardinality(BagToSet(blocks)) < MaxBlocks
            /\ blocks' = blocks (+) SetToBag({<<u, u>>})
            /\ last' = Resp("debug_userblock", u, NULL, "success", "test block created")
    /\ UNCHANGED <<messages, message_requests, notifications, now>>
    /\ UNCHANGED <<skillVars, meetingVars, accountVars, pc>>

\* Blocking and unblocking on a store that holds several MessageRequest rows
InitBlocking ==
    /\ skills = <<>>
    /\ requests = <<>>
    /\ notifications = <<>>
    /\ messages = <<>>
    /\ blocks = EmptyBag
    /\ message_requests \in RequestTablesUpTo(MaxCascadeRequests)
    /\ meetings = <<>>
    /\ pc = Idle
    /\ users = Users
    /\ reviews = <<>>
    /\ now = 0
    /\ last = NoCall

NextBlocking ==
    \/ \E u \in Users, target \in Users : block_user(u, target)
    \/ \E u \in Users, target \in Users : unblock_user(u, target)
    \/ \E u \in Users : debug_userblock(u)

SpecBlocking == InitBlocking /\ [][NextBlocking]_vars

\* ---------------------------------------------------------------- meetings
\* Times are counted in minutes, the grain of the form's input format
\* '%Y-%m-%dT%H:%M'; timedelta(days=d) is d days of 24 * 60 minutes.
MinutesPerDay == 24 * 60

\* MeetingForm.clean_scheduled_date: timedelta(days=365)
MaxFutureDays == 365

\* MeetingForm.duration_minutes: min_value, max_value (and clean_duration_minutes)
MinDuration == 15
MaxDuration == 480

\* Meeting.STATUS_CHOICES (models.py 258-263)
MeetingStatuses == {"scheduled", "confirmed", "cancelled", "completed"}

MeetingIds == 1..MaxMeetings

\* the dates and durations a form is submitted with: around each limit
Dates == {now - 1, now, now + MaxFutureDays * MinutesPerDay, now + MaxFutureDays * MinutesPerDay + 1}
Durations == {MinDuration - 1, MinDuration, MaxDuration, MaxDuration + 1, 600}

\* a submitted MeetingForm whose other fields (title, meeting_type, ...)
\* validate: the date, the duration and the participants chosen
FormsOf(dates, durations, choices) ==
    [scheduled_date : dates, duration_minutes : durations, participants : choices]

\* the forms the validation is exercised with: every date and duration of
\* the samples, no participant chosen
ValidationForms == FormsOf(Dates, Durations, {{}})

\* the forms the invitations are exercised with: every choice of
\* participants, a date and a duration that validate or a date that does not
InvitationForms == FormsOf({now - 1, now}, {MinDuration}, SUBSET Users)

\* clean_scheduled_date without the limit of lines 166-169
clean_scheduled_date_no_limit(scheduled_date) == ~(scheduled_date < now)

\* MeetingForm.clean_scheduled_date (forms.py 161-171): TRUE when no
\* ValidationError is raised
clean_scheduled_date(scheduled_date) ==
    /\ ~(scheduled_date < now)
    /\ ~(scheduled_date > now + MaxFutureDays * MinutesPerDay)

\* the validators of IntegerField(min_value=15, max_value=480), then
\* MeetingForm.clean_duration_minutes (forms.py 173-179)
clean_duration_minutes(duration) ==
    /\ duration >= MinDuration /\ duration <= MaxDuration
    /\ ~(duration < 15)
    /\ ~(duration > 480)

\* ModelMultipleChoiceField: every chosen user is in the field's queryset,
\* User.objects.exclude(id=organizer.id) (forms.py 142-148)
clean_participants(participants, organizer) == participants \subseteq Users \ {organizer}

\* MeetingForm.clean (forms.py 186-199): the end time is checked when both
\* fields are clean
clean(form) ==
    (clean_scheduled_date(form.scheduled_date) /\ clean_duration_minutes(form.duration_minutes))
    => ~(form.scheduled_date + form.duration_minutes < now)

\* form.errors: the fields that raised a ValidationError ("__all__" for clean)
errors(form, organizer) ==
    (IF clean_scheduled_date(form.scheduled_date) THEN {} ELSE {"scheduled_date"})
    \cup (IF clean_duration_minutes(form.duration_minutes) THEN {} ELSE {"duration_minutes"})
    \cup (IF clean_participants(form.participants, organizer) THEN {} ELSE {"participants"})
    \cup (IF clean(form) THEN {} ELSE {"__all__"})

\* form.is_valid()
is_valid(form, organizer) == errors(form, organizer) = {}

\* what the response shows of the submitted form: the date and the duration
\* entered and the fields marked with an error
Rendered(form, organizer) ==
    [scheduled_date |-> form.scheduled_date, duration_minutes |-> form.duration_minutes,
     errors |-> errors(form, organizer)]

MeetingRow(organizer, form, participants) ==
    [organizer |-> organizer, participants |-> participants,
     scheduled_date |-> form.scheduled_date, duration_minutes |-> form.duration_minutes,
     status |-> "scheduled"]

\* notify_meeting_invite (views.py 167-189): one row for the participant
notify_meeting_invite(participant) ==
    IF get_current_site_raises(FALSE) THEN <<>>
    ELSE <<Notif(participant, "meeting_invite")>>

\* notify_meeting_update (views.py 191-214): one row for the participant
notify_meeting_update(participant) ==
    IF get_current_site_raises(FALSE) THEN <<>>
    ELSE <<Notif(participant, "meeting_update")>>

\* the rows the loop of schedule_meeting creates: one call of
\* notify_meeting_invite per participant
RECURSIVE InviteEach(_)
InviteEach(S) ==
    IF S = {} THEN <<>>
    ELSE LET x == CHOOSE y \in S : TRUE IN notify_meeting_invite(x) \o InviteEach(S \ {x})

\* the rows the loop of update_meeting_status creates: one call of
\* notify_meeting_update per participant
RECURSIVE UpdateEach(_)
UpdateEach(S) ==
    IF S = {} THEN <<>>
    ELSE LET x == CHOOSE y \in S : TRUE IN notify_meeting_update(x) \o UpdateEach(S \ {x})

\* schedule_meeting (views.py 1252-1280), the POST
schedule_meeting(u, form) ==
    /\ IF is_valid(form, u)
       THEN /\ Len(meetings) < MaxMeetings
            /\ meetings' = Append(meetings, MeetingRow(u, form, form.participants))
            /\ notifications' = notifications \o InviteEach(form.participants \ {u})
            /\ last' = Resp("schedule_meeting", u, Rendered(form, u), "success", "meeting scheduled")
       ELSE /\ UNCHANGED <<meetings, notifications>>
            /\ last' = Resp("schedule_meeting", u, Rendered(form, u), "error", "please correct the errors below")
    /\ UNCHANGED <<skillVars, msgVars, accountVars, pc, now>>

\* quick_schedule (views.py 1294-1336), the POST: the user named in the URL
\* is added to the participants the form saved
quick_schedule(u, username, form) ==
    /\ IF username \notin Users
       THEN /\ UNCHANGED <<meetings, notifications>>
            /\ last' = Resp("quick_schedule", u, NULL, "error", "user not found")
       ELSE IF is_valid(form, u)
       THEN /\ Len(meetings) < MaxMeetings
            /\ meetings' = Append(meetings, MeetingRow(u, form, form.participants \cup {username}))
            /\ notifications' = notifications \o
                  (IF username # u THEN notify_meeting_invite(username) ELSE <<>>)
            /\ last' = Resp("quick_schedule", u, Rendered(form, u), "success", "meeting scheduled")
       ELSE /\ UNCHANGED <<meetings, notifications>>
            /\ last' = Resp("quick_schedule", u, Rendered(form, u), "form", "form errors")
    /\ UNCHANGED <<skillVars, msgVars, accountVars, pc, now>>

\* edit_meeting (views.py 1583-1595), the POST: staff only; the form is bound
\* to the meeting with organizer=meeting.organizer and saved with its
\* participants; organizer and status are no fields of the form
edit_meeting(u, m, form) ==
    /\ IF u \notin Staff
       THEN /\ UNCHANGED meetings
            /\ last' = Resp("edit_meeting", u, NULL, "login", "redirected to the admin login")
       ELSE IF m \notin DOMAIN meetings
       THEN /\ UNCHANGED meetings
            /\ last' = Resp("edit_meeting", u, NULL, "404", "not found")
       ELSE IF is_valid(form, meetings[m].organizer)
       THEN /\ meetings' = [meetings EXCEPT ![m].scheduled_date = form.scheduled_date,
                                            ![m].duration_minutes = form.duration_minutes,
                                            ![m].participants = form.participants]
            /\ last' = Resp("edit_meeting", u, Rendered(form, meetings[m].organizer), "success", "meeting updated")
       ELSE /\ UNCHANGED meetings
            /\ last' = Resp("edit_meeting", u, Rendered(form, meetings[m].organizer), "form", "form errors")
    /\ UNCHANGED <<skillVars, msgVars, accountVars, notifications, pc, now>>

\* update_meeting_status without the permission check of lines 1379-1381
update_meeting_status_anyone(u, m, status) ==
    /\ IF m \notin DOMAIN meetings
       THEN /\ UNCHANGED <<meetings, notifications>>
            /\ last' = Resp("update_meeting_status", u, <<m, status>>, "404", "not found")
       ELSE IF status \in MeetingStatuses
       THEN /\ meetings' = [meetings EXCEPT ![m].status = status]
            /\ notifications' = notifications \o UpdateEach(meetings[m].participants \ {u})
            /\ last' = Resp("update_meeting_status", u, <<m, status>>, "success", "meeting status updated")
       ELSE /\ UNCHANGED <<meetings, notifications>>
            /\ last' = Resp("update_meeting_status", u, <<m, status>>, "redirect", "")
    /\ UNCHANGED <<skillVars, msgVars, accountVars, pc, now>>

\* update_meeting_status (views.py 1373-1395)
update_meeting_status(u, m, status) ==
    /\ IF m \notin DOMAIN meetings
       THEN /\ UNCHANGED <<meetings, notifications>>
            /\ last' = Resp("update_meeting_status", u, <<m, status>>, "404", "not found")
       ELSE IF u # meetings[m].organizer /\ u \notin meetings[m].participants
       THEN /\ UNCHANGED <<meetings, notifications>>
            /\ last' = Resp("update_meeting_status", u, <<m, status>>, "error",
                            "you do not have permission to update this meeting")
       ELSE IF status \in MeetingStatuses
       THEN /\ meetings' = [meetings EXCEPT ![m].status = status]
            /\ notifications' = notifications \o UpdateEach(meetings[m].participants \ {u})
            /\ last' = Resp("update_meeting_status", u, <<m, status>>, "success", "meeting status updated")
       ELSE /\ UNCHANGED <<meetings, notifications>>
            /\ last' = Resp("update_meeting_status", u, <<m, status>>, "redirect", "")
    /\ UNCHANGED <<skillVars, msgVars, accountVars, pc, now>>

\* The meeting views on an empty store
InitMeetings ==
    /\ skills = <<>>
    /\ requests = <<>>
    /\ notifications = <<>>
    /\ messages = <<>>
    /\ blocks = EmptyBag
    /\ message_requests = {}
    /\ meetings = <<>>
    /\ pc = Idle
    /\ users = Users
    /\ reviews = <<>>
    /\ now = 0
    /\ last = NoCall

\* the views that submit a MeetingForm, called with the forms given
MeetingFormStep(forms) ==
    \/ \E u \in Users, form \in forms : schedule_meeting(u, form)
    \/ \E u \in Users, username \in Users \cup {Nobody}, form \in forms : quick_schedule(u, username, form)
    \/ \E u \in Users, m \in MeetingIds, form \in forms : edit_meeting(u, m, form)

NextMeetings ==
    \/ MeetingFormStep(InvitationForms)
    \/ \E u \in Users, m \in MeetingIds, status \in MeetingStatuses \cup {"archived"} :
          update_meeting_status(u, m, status)

NextValidation == MeetingFormStep(ValidationForms)

\* the meeting views, called with every choice of participants
SpecMeetings == InitMeetings /\ [][NextMeetings]_vars

\* the views that submit a MeetingForm, called with every date and duration
\* of the samples
SpecValidation == InitMeetings /\ [][NextValidation]_vars

\* ---------------------------------------------------------------- reading messages
\* Message.objects.filter(from_user=, to_user=, is_read=False).update(is_read=True)
MarkRead(from, to) ==
    [i \in DOMAIN messages |->
        IF messages[i].from_user = from /\ messages[i].to_user = to /\ ~messages[i].is_read
        THEN [messages[i] EXCEPT !.is_read = TRUE]
        ELSE messages[i]]

\* mark_messages_read with a filter on the two users in either direction
mark_messages_read_whole_conversation(u, username) ==
    /\ IF username \notin Users
       THEN /\ UNCHANGED messages
            /\ last' = Resp("mark_messages_read", u, username, "404", "not found")
       ELSE /\ messages' =
                  [i \in DOMAIN messages |->
                      IF {messages[i].from_user, messages[i].to_user} = {username, u}
                      THEN [messages[i] EXCEPT !.is_read = TRUE]
                      ELSE messages[i]]
            /\ last' = Resp("mark_messages_read", u, username, "success", "")
    /\ UNCHANGED <<blocks, message_requests, notifications, now>>
    /\ UNCHANGED <<skillVars, meetingVars, accountVars, pc>>

\* mark_messages_read (views.py 1213-1221)
mark_messages_read(u, username) ==
    /\ IF username \notin Users
       THEN /\ UNCHANGED messages
            /\ last' = Resp("mark_messages_read", u, username, "404", "not found")
       ELSE /\ messages' = MarkRead(username, u)
            /\ last' = Resp("mark_messages_read", u, username, "success", "")
    /\ UNCHANGED <<blocks, message_requests, notifications, now>>
    /\ UNCHANGED <<skillVars, meetingVars, accountVars, pc>>

\* chat_dashboard (views.py 980-1148): with ?user=<username> the messages of
\* that user to the caller are marked read (lines 1123-1127); the rest of
\* the view reads only
chat_dashboard(u, selected_user) ==
    /\ IF selected_user = NULL
       THEN /\ UNCHANGED messages
            /\ last' = Resp("chat_dashboard", u, selected_user, "page", "")
       ELSE IF selected_user \notin Users
       THEN /\ UNCHANGED messages
            /\ last' = Resp("chat_dashboard", u, selected_user, "404", "not found")
       ELSE /\ messages' = MarkRead(selected_user, u)
            /\ last' = Resp("chat_dashboard", u, selected_user, "page", "")
    /\ UNCHANGED <<blocks, message_requests, notifications, now>>
    /\ UNCHANGED <<skillVars, meetingVars, accountVars, pc>>

\* the Message tables of at most n unread rows (any such table is what n
\* calls of send_message leave)
RECURSIVE InboxesUpTo(_)
InboxesUpTo(n) ==
    IF n = 0 THEN {<<>>}
    ELSE LET T == InboxesUpTo(n - 1)
         IN T \cup {Append(t, Msg(a, b)) : <<t, a, b>> \in T \X Users \X Users}

\* Reading on a store that holds several messages
InitInbox ==
    /\ skills = <<>>
    /\ requests = <<>>
    /\ notifications = <<>>
    /\ messages \in InboxesUpTo(MaxInbox)
    /\ blocks = EmptyBag
    /\ message_requests = {}
    /\ meetings = <<>>
    /\ pc = Idle
    /\ users = Users
    /\ reviews = <<>>
    /\ now = 0
    /\ last = NoCall

NextInbox ==
    \/ \E u \in Users, to \in Users : send_message(u, to)
    \/ \E u \in Users, to \in Users : reply_message(u, to)
    \/ \E u \in Users, username \in Users \cup {Nobody} : mark_messages_read(u, username)
    \/ \E u \in Users, selected_user \in Users \cup {Nobody, NULL} : chat_dashboard(u, selected_user)

SpecInbox == InitInbox /\ [][NextInbox]_vars

\* ---------------------------------------------------------------- request_skill, statement by statement
\* request_skill up to its existence check (views.py 685-713), served by
\* worker p: a call that passes the check goes on to the create of line 716
request_skill_check(p, u, s) ==
    /\ pc[p] = <<>>
    /\ IF s \notin DOMAIN skills
       THEN /\ UNCHANGED pc
            /\ last' = Resp("request_skill", u, s, "404", "not found")
       ELSE IF skills[s] = u
       THEN /\ UNCHANGED pc
            /\ last' = Resp("request_skill", u, s, "error", "you cannot request your own skill")
       ELSE IF RequestsFor(s, u) # {}
       THEN /\ UNCHANGED pc
            /\ last' = Resp("request_skill", u, s, "info",
                            ExistingMessage(requests[First(RequestsFor(s, u))].status))
       ELSE /\ pc' = [pc EXCEPT ![p] = <<u, s>>]
            /\ UNCHANGED last
    /\ UNCHANGED <<skills, requests, notifications, now>>
    /\ UNCHANGED <<msgVars, meetingVars, accountVars>>

\* the create of request_skill behind a (skill, requester) uniqueness
\* constraint: a second row for the pair is refused
request_skill_create_unique(p) ==
    /\ pc[p] # <<>>
    /\ IF RequestsFor(pc[p][2], pc[p][1]) # {}
       THEN /\ UNCHANGED <<requests, notifications>>
            /\ last' = Resp("request_skill", pc[p][1], pc[p][2], "500", "IntegrityError")
       ELSE /\ Len(requests) < MaxRequests
            /\ requests' = Append(requests, ReqRow(pc[p][2], pc[p][1], skills[pc[p][2]], PENDING))
            /\ notifications' = notifications \o
                  notify_skill_request(ReqRow(pc[p][2], pc[p][1], skills[pc[p][2]], PENDING))
            /\ last' = Resp("request_skill", pc[p][1], pc[p][2], "success", "request sent to skill owner")
    /\ pc' = [pc EXCEPT ![p] = <<>>]
    /\ UNCHANGED <<skills, now>>
    /\ UNCHANGED <<msgVars, meetingVars, accountVars>>

\* request_skill from its create on (views.py 715-739), served by worker p:
\* the row is written whatever has been written since the check (no
\* transaction, no lock, no constraint on SkillRequest, models.py 74-92)
request_skill_create(p) ==
    /\ pc[p] # <<>>
    /\ Len(requests) < MaxRequests
    /\ requests' = Append(requests, ReqRow(pc[p][2], pc[p][1], skills[pc[p][2]], PENDING))
    /\ notifications' = notifications \o
          notify_skill_request(ReqRow(pc[p][2], pc[p][1], skills[pc[p][2]], PENDING))
    /\ last' = Resp("request_skill", pc[p][1], pc[p][2], "success", "request sent to skill owner")
    /\ pc' = [pc EXCEPT ![p] = <<>>]
    /\ UNCHANGED <<skills, now>>
    /\ UNCHANGED <<msgVars, meetingVars, accountVars>>

\* request_skill served by several workers at once, with the views that
\* create skills and answer requests
NextRace ==
    \/ \E u \in Users, valid \in BOOLEAN : create_skill(u, valid)
    \/ \E p \in Workers, u \in Users, s \in SkillIds : request_skill_check(p, u, s)
    \/ \E p \in Workers : request_skill_create(p)
    \/ \E u \in Users, r \in RequestIds : accept_request(u, r)

SpecRace == Init /\ [][NextRace]_vars

\* ---------------------------------------------------------------- start_skill_session, statement by statement
\* start_skill_session up to its checks (views.py 741-754), served by worker
\* p: get_object_or_404 loads the row, and the owner and the status are
\* checked on the loaded copy
start_skill_session_load(p, u, r) ==
    /\ pc[p] = <<>>
    /\ IF r \notin DOMAIN requests
       THEN /\ UNCHANGED pc
            /\ last' = Resp("start_skill_session", u, r, "404", "not found")
       ELSE IF u # requests[r].owner
       THEN /\ UNCHANGED pc
            /\ last' = Resp("start_skill_session", u, r, "error", "only the skill owner can start a session")
       ELSE IF requests[r].status # APPROVED
       THEN /\ UNCHANGED pc
            /\ last' = Resp("start_skill_session", u, r, "error", "can only start sessions for approved requests")
       ELSE /\ pc' = [pc EXCEPT ![p] = <<"start_skill_session", u, r, requests[r]>>]
            /\ UNCHANGED last
    /\ UNCHANGED <<skills, requests, notifications, now>>
    /\ UNCHANGED <<msgVars, meetingVars, accountVars>>

\* start_skill_session from its save on (views.py 756-765), served by worker
\* p: Model.save() writes every field of the loaded copy, with no condition
\* on the stored status
start_skill_session_save(p) ==
    /\ pc[p] # <<>>
    /\ requests' = [requests EXCEPT
                       ![pc[p][3]] = [pc[p][4] EXCEPT !.status = IN_PROGRESS, !.started_at = Stamp(now)]]
    /\ notifications' = notifications \o notify_skill_session_start(pc[p][4])
    /\ last' = Resp("start_skill_session", pc[p][2], pc[p][3], "success", "skill session started")
    /\ pc' = [pc EXCEPT ![p] = <<>>]
    /\ UNCHANGED <<skills, now>>
    /\ UNCHANGED <<msgVars, meetingVars, accountVars>>

\* start_skill_session served by several workers at once, with the views
\* that create, accept and reject requests
NextStatusRace ==
    \/ \E u \in Users, valid \in BOOLEAN : create_skill(u, valid)
    \/ \E u \in Users, s \in SkillIds : request_skill(u, s)
    \/ \E u \in Users, r \in RequestIds : accept_request(u, r)
    \/ \E u \in Users, r \in RequestIds : reject_request(u, r)
    \/ \E p \in Workers, u \in Users, r \in RequestIds : start_skill_session_load(p, u, r)
    \/ \E p \in Workers : start_skill_session_save(p)

SpecStatusRace == Init /\ [][NextStatusRace]_vars

\* ---------------------------------------------------------------- unblocking
\* the UserBlock tables of at most n rows between different users, one per
\* (blocker, blocked): what n calls of block_user leave
RECURSIVE BlockTablesUpTo(_)
BlockTablesUpTo(n) ==
    IF n = 0 THEN {EmptyBag}
    ELSE LET T == BlockTablesUpTo(n - 1)
         IN T \cup {x[1] (+) SetToBag({<<x[2], x[3]>>}) :
                       x \in {y \in T \X Users \X Users : y[2] # y[3] /\ ~BagIn(<<y[2], y[3]>>, y[1])}}

\* Unblocking on a store that holds several blocks and MessageRequest rows;
\* block_user has declined the PENDING requests of a blocked user to the
\* blocker
InitUnblock ==
    /\ skills = <<>>
    /\ requests = <<>>
    /\ notifications = <<>>
    /\ messages = <<>>
    /\ blocks \in BlockTablesUpTo(MaxStoredBlocks)
    /\ message_requests \in RequestTablesUpTo(MaxStoredRequests)
    /\ \A q \in message_requests : q.status = "PENDING" => ~BagIn(<<q.to_user, q.from_user>>, blocks)
    /\ meetings = <<>>
    /\ pc = Idle
    /\ users = Users
    /\ reviews = <<>>
    /\ now = 0
    /\ last = NoCall

SpecUnblock == InitUnblock /\ [][NextBlocking]_vars

\* The chat send on a store that holds blocks, MessageRequest rows and the
\* messages that send_message leaves
NextGate ==
    \/ \E u \in Users, to \in Users, content \in BOOLEAN : send_chat_message(u, to, content)
    \/ \E u \in Users, to \in Users : send_message(u, to)
    \/ \E u \in Users, target \in Users : block_user(u, target)
    \/ \E u \in Users, target \in Users : unblock_user(u, target)

SpecGate == InitUnblock /\ [][NextGate]_vars

\* ---------------------------------------------------------------- block_user, statement by statement
\* block_user up to its existence check (views.py 1723-1754), served by
\* worker p
block_user_check(p, u, target) ==
    /\ pc[p] = <<>>
    /\ IF u = target
       THEN /\ UNCHANGED pc
            /\ last' = Resp("block_user", u, target, "error", "you cannot block yourself")
       ELSE IF BagIn(<<u, target>>, blocks)
       THEN /\ UNCHANGED pc
            /\ last' = Resp("block_user", u, target, "success", "user was already blocked")
       ELSE /\ pc' = [pc EXCEPT ![p] = <<u, target>>]
            /\ UNCHANGED last
    /\ UNCHANGED <<messages, blocks, message_requests, notifications, now>>
    /\ UNCHANGED <<skillVars, meetingVars, accountVars>>

\* the create of block_user on a UserBlock table with no unique_together
block_user_create_no_constraint(p) ==
    /\ pc[p] # <<>>
    /\ Cardinality(BagToSet(blocks) \cup {pc[p]}) <= MaxBlocks
    /\ blocks' = blocks (+) SetToBag({pc[p]})
    /\ message_requests' =
          {IF q.from_user = pc[p][2] /\ q.to_user = pc[p][1] /\ q.status = "PENDING"
           THEN MsgReq(pc[p][2], pc[p][1], "DECLINED") ELSE q : q \in message_requests}
    /\ last' = Resp("block_user", pc[p][1], pc[p][2], "success", "you have blocked the user")
    /\ pc' = [pc EXCEPT ![p] = <<>>]
    /\ UNCHANGED <<messages, notifications, now>>
    /\ UNCHANGED <<skillVars, meetingVars, accountVars>>

\* block_user from its create on (views.py 1756-1784), served by worker p:
\* unique_together (models.py 156) makes the INSERT of a second row for the
\* pair raise IntegrityError, which the except of line 1778 answers with an
\* error (status 500) before the update of line 1765 is reached
block_user_create(p) ==
    /\ pc[p] # <<>>
    /\ IF BagIn(pc[p], blocks)
       THEN /\ UNCHANGED <<blocks, message_requests>>
            /\ last' = Resp("block_user", pc[p][1], pc[p][2], "500", "IntegrityError")
       ELSE /\ Cardinality(BagToSet(blocks) \cup {pc[p]}) <= MaxBlocks
            /\ blocks' = blocks (+) SetToBag({pc[p]})
            /\ message_requests' =
                  {IF q.from_user = pc[p][2] /\ q.to_user = pc[p][1] /\ q.status = "PENDING"
                   THEN MsgReq(pc[p][2], pc[p][1], "DECLINED") ELSE q : q \in message_requests}
            /\ last' = Resp("block_user", pc[p][1], pc[p][2], "success", "you have blocked the user")
    /\ pc' = [pc EXCEPT ![p] = <<>>]
    /\ UNCHANGED <<messages, notifications, now>>
    /\ UNCHANGED <<skillVars, meetingVars, accountVars>>

\* block_user served by several workers at once, with unblock_user
NextBlockRace ==
    \/ \E p \in Workers, u \in Users, target \in Users : block_user_check(p, u, target)
    \/ \E p \in Workers : block_user_create(p)
    \/ \E u \in Users, target \in Users : unblock_user(u, target)

SpecBlockRace == InitStoredRequests /\ [][NextBlockRace]_vars

\* ---------------------------------------------------------------- reviews
\* the largest value of a PositiveSmallIntegerField (models.py 99): a smallint
\* column with the check rating >= 0
SmallIntMax == 32767

Digits == <<"0", "1", "2", "3", "4", "5", "6", "7", "8", "9">>

DigitValue(c) == (CHOOSE d \in DOMAIN Digits : Digits[d] = c) - 1

IsDigits(text) == Len(text) > 0 /\ \A i \in DOMAIN text : \E d \in DOMAIN Digits : Digits[d] = text[i]

RECURSIVE Decimal(_)
Decimal(text) ==
    IF text = <<>> THEN 0
    ELSE 10 * Decimal(SubSeq(text, 1, Len(text) - 1)) + DigitValue(text[Len(text)])

\* int(request.POST.get('rating')) (views.py 840, 872): TypeError for a field
\* that was not submitted, ValueError for a text that is no integer
int(field) ==
    IF ~field.submitted THEN [raises |-> "TypeError", value |-> 0]
    ELSE IF IsDigits(field.text) THEN [raises |-> NULL, value |-> Decimal(field.text)]
    ELSE IF Len(field.text) > 1 /\ field.text[1] = "-" /\ IsDigits(Tail(field.text))
    THEN [raises |-> NULL, value |-> 0 - Decimal(Tail(field.text))]
    ELSE [raises |-> "ValueError", value |-> 0]

\* the rating fields submitted: none, the empty text, a word, and integers
\* around the ends of 0..5 and of the column's range
Ratings ==
    {[submitted |-> FALSE, text |-> <<>>]} \cup
    {[submitted |-> TRUE, text |-> t] :
        t \in {<<>>, <<"a">>, <<"-", "1">>, <<"0">>, <<"5">>, <<"6">>,
               <<"3", "2", "7", "6", "7">>, <<"3", "2", "7", "6", "8">>}}

\* what the INSERT or UPDATE of a rating does: the check constraint refuses a
\* negative value (IntegrityError), the column a value above its range
\* (DataError); Model.save and objects.create run no validator
stores(rating) ==
    CASE rating < 0 -> "IntegrityError"
      [] rating > SmallIntMax -> "DataError"
      [] OTHER -> "stored"

ReviewIds == 1..MaxReviews

ReviewRow(skill, reviewer, rating) == [skill |-> skill, reviewer |-> reviewer, rating |-> rating]

\* notify_new_review (views.py 216-239): one row for the skill owner, unless
\* the site lookup raises
notify_new_review(owner) ==
    IF get_current_site_raises(FALSE) THEN <<>>
    ELSE <<Notif(owner, "new_review")>>

\* add_review (views.py 835-858), POST
add_review(u, s, text) ==
    /\ IF s \notin DOMAIN skills
       THEN /\ UNCHANGED <<reviews, notifications>>
            /\ last' = Resp("add_review", u, s, "404", "")
       ELSE IF int(text).raises # NULL
       THEN /\ UNCHANGED <<reviews, notifications>>
            /\ last' = Resp("add_review", u, s, "500", int(text).raises)
       ELSE IF stores(int(text).value) # "stored"
       THEN /\ UNCHANGED <<reviews, notifications>>
            /\ last' = Resp("add_review", u, s, "500", stores(int(text).value))
       ELSE /\ Len(reviews) < MaxReviews
            /\ reviews' = Append(reviews, ReviewRow(s, u, int(text).value))
            /\ notifications' = notifications \o
                  (IF u # skills[s] THEN notify_new_review(skills[s]) ELSE <<>>)
            /\ last' = Resp("add_review", u, s, "success", "your review has been submitted")
    /\ UNCHANGED <<skillVars, msgVars, meetingVars, users, pc, now>>

\* edit_review (views.py 860-877), POST
edit_review(u, r, text) ==
    /\ IF r \notin DOMAIN reviews
       THEN /\ UNCHANGED reviews
            /\ last' = Resp("edit_review", u, r, "404", "")
       ELSE IF reviews[r].reviewer # u
       THEN /\ UNCHANGED reviews
            /\ last' = Resp("edit_review", u, r, "error", "you can only edit your own review")
       ELSE IF int(text).raises # NULL
       THEN /\ UNCHANGED reviews
            /\ last' = Resp("edit_review", u, r, "500", int(text).raises)
       ELSE IF stores(int(text).value) # "stored"
       THEN /\ UNCHANGED reviews
            /\ last' = Resp("edit_review", u, r, "500", stores(int(text).value))
       ELSE /\ reviews' = [reviews EXCEPT ![r].rating = int(text).value]
            /\ last' = Resp("edit_review", u, r, "success", "your review has been updated")
    /\ UNCHANGED <<skillVars, msgVars, meetingVars, users, notifications, pc, now>>

NextReviews ==
    \/ \E u \in Users, valid \in BOOLEAN : create_skill(u, valid)
    \/ \E u \in Users, s \in SkillIds, text \in Ratings : add_review(u, s, text)
    \/ \E u \in Users, r \in ReviewIds, text \in Ratings : edit_review(u, r, text)

SpecReviews == Init /\ [][NextReviews]_vars

\* ---------------------------------------------------------------- accounts and notifications
\* the default age, in days, at which delete_old_notifications prunes
\* (models.py 333)
DefaultDays == 30

\* timedelta(days=days)
timedelta(days) == days * MinutesPerDay

\* the steps of delete_account at which the database may raise, and "none"
DeleteFailures == {"none", "get", "clear", "delete"}

\* the rows that on_delete=CASCADE removes with user u (models.py 61-268),
\* and the ids the remaining skills get in this model
KeptSkills(u) == {s \in DOMAIN skills : skills[s] # u}

SkillIdAfter(u, s) == Cardinality({t \in KeptSkills(u) : t <= s})

KeepsRequest(u, row) == row.requester # u /\ row.owner # u /\ row.skill \in KeptSkills(u)

KeepsReview(u, row) == row.reviewer # u /\ row.skill \in KeptSkills(u)

Renumbered(u, rows) == [i \in DOMAIN rows |-> [rows[i] EXCEPT !.skill = SkillIdAfter(u, @)]]

\* user.meetings.clear() (views.py 1631-1632)
Cleared(u) == [m \in DOMAIN meetings |-> [meetings[m] EXCEPT !.participants = @ \ {u}]]

\* User.objects.filter(id=user_id).delete() (views.py 1635) with its cascades
DeleteUser(u) ==
    /\ users' = users \ {u}
    /\ skills' = SelectSeq(skills, LAMBDA o : o # u)
    /\ requests' = Renumbered(u, SelectSeq(requests, LAMBDA row : KeepsRequest(u, row)))
    /\ reviews' = Renumbered(u, SelectSeq(reviews, LAMBDA row : KeepsReview(u, row)))
    /\ messages' = SelectSeq(messages, LAMBDA m : m.from_user # u /\ m.to_user # u)
    /\ blocks' = [x \in {y \in DOMAIN blocks : y[1] # u /\ y[2] # u} |-> blocks[x]]
    /\ message_requests' = {q \in message_requests : q.from_user # u /\ q.to_user # u}
    /\ notifications' = SelectSeq(notifications, LAMBDA n : n.user # u)
    /\ meetings' = SelectSeq(Cleared(u), LAMBDA m : m.organizer # u)

\* delete_account with no transaction around its statements
delete_account_no_atomic(u, fails) ==
    /\ u \in users
    /\ IF fails = "none"
       THEN /\ DeleteUser(u)
            /\ last' = Resp("delete_account", u, NULL, "success", "your account has been permanently deleted")
       ELSE /\ meetings' = IF fails = "delete" THEN Cleared(u) ELSE meetings
            /\ UNCHANGED <<users, skills, requests, reviews, messages, blocks, message_requests, notifications>>
            /\ last' = Resp("delete_account", u, NULL, "error", "an error occurred while deleting your account")
    /\ UNCHANGED <<pc, now>>

\* delete_account (views.py 1609-1648), POST: the statements run inside
\* transaction.atomic(), so an exception at any of them rolls back what the
\* earlier ones wrote before the except of line 1641 answers
delete_account(u, fails) ==
    /\ u \in users
    /\ IF fails = "none"
       THEN /\ DeleteUser(u)
            /\ last' = Resp("delete_account", u, NULL, "success", "your account has been permanently deleted")
       ELSE /\ UNCHANGED <<users, skills, requests, reviews, messages, blocks, message_requests,
                           notifications, meetings>>
            /\ last' = Resp("delete_account", u, NULL, "error", "an error occurred while deleting your account")
    /\ UNCHANGED <<pc, now>>

\* the rows delete_old_notifications removes: created_at__lt=cutoff
Old(days) == {i \in DOMAIN notifications : notifications[i].created_at < now - timedelta(days)}

\* delete_old_notifications with created_at__lte=cutoff
delete_old_notifications_lte(days) ==
    /\ notifications' = SelectSeq(notifications, LAMBDA n : ~(n.created_at <= now - timedelta(days)))
    /\ last' = Resp("delete_old_notifications", NULL,
                    [days |-> days, deleted |-> Len(notifications) - Len(notifications')], "done", "")
    /\ UNCHANGED <<skillVars, msgVars, meetingVars, accountVars, pc, now>>

\* delete_old_notifications (models.py 333-336)
delete_old_notifications(days) ==
    /\ notifications' = SelectSeq(notifications, LAMBDA n : ~(n.created_at < now - timedelta(days)))
    /\ last' = Resp("delete_old_notifications", NULL,
                    [days |-> days, deleted |-> Cardinality(Old(days))], "done", "")
    /\ UNCHANGED <<skillVars, msgVars, meetingVars, accountVars, pc, now>>

\* the stored Notification rows: created a minute before, at, and a minute
\* after the default cutoff
StoredNotifications ==
    {[user |-> u, type |-> "message", is_read |-> FALSE, created_at |-> now - timedelta(DefaultDays) + d] :
        <<u, d>> \in Users \X {-1, 0, 1}}

RECURSIVE NotificationTablesUpTo(_)
NotificationTablesUpTo(n) ==
    IF n = 0 THEN {<<>>}
    ELSE LET T == NotificationTablesUpTo(n - 1)
         IN T \cup {Append(t[1], t[2]) : t \in T \X StoredNotifications}

\* Accounts on a store that holds Notification rows
InitAccount ==
    /\ skills = <<>>
    /\ requests = <<>>
    /\ now = 0
    /\ notifications \in NotificationTablesUpTo(MaxStoredNotifications)
    /\ messages = <<>>
    /\ blocks = EmptyBag
    /\ message_requests = {}
    /\ meetings = <<>>
    /\ pc = Idle
    /\ users = Users
    /\ reviews = <<>>
    /\ last = NoCall

\* the forms of schedule_meeting whose participants have an account
AccountForms == {form \in InvitationForms : form.participants \subseteq users}

NextAccount ==
    \/ \E u \in users, form \in AccountForms : schedule_meeting(u, form)
    \/ \E u \in users, fails \in DeleteFailures : delete_account(u, fails)
    \/ \E days \in {DefaultDays, 1} : delete_old_notifications(days)

SpecAccount == InitAccount /\ [][NextAccount]_vars

\* ---------------------------------------------------------------- properties
\* the step just taken served view op for request id r
Served(ops, r) == last'.op \in ops /\ last'.arg = r

\* the owner of the skill a request row is about
SkillOwner(row) == skills[row.skill]

\* the responses that refuse a call: an error flash, a 404, the admin login
Refusals == {"error", "404", "login"}

\* the status a request_skill notice names, NULL for the notice that names none
NamedStatus(msg) ==
    CASE msg = "already requested: pending approval" -> PENDING
      [] msg = "your request has been approved" -> APPROVED
      [] msg = "your previous request was rejected" -> REJECTED
      [] msg = "you have already completed learning this skill" -> COMPLETED
      [] OTHER -> NULL

\* the rows of a (skill, requester) pair after the step
RequestsForAfter(skill, requester) ==
    {i \in DOMAIN requests' : requests'[i].skill = skill /\ requests'[i].requester = requester}

\* C1, as stated (for requesters other than the skill's owner): request_skill
\* for a pair that already has a SkillRequest, whatever its status, creates
\* no row and reports the existing request's status.
C1_ExistingStatusReported ==
    [][\A u \in Users, s \in DOMAIN skills :
        (last'.op = "request_skill" /\ last'.user = u /\ last'.arg = s
            /\ skills[s] # u /\ RequestsFor(s, u) # {})
        => /\ requests' = requests
           /\ NamedStatus(last'.msg) = requests[First(RequestsFor(s, u))].status]_vars

\* C1, amended: request_skill for a pair that already has a SkillRequest
\* creates no row and no notification; a requester other than the owner is
\* told the status of the oldest such request when it is PENDING, APPROVED,
\* REJECTED or COMPLETED and gets the notice that names no status when it is
\* IN_PROGRESS; the skill's owner is refused with an error.  So request_skill
\* never adds a row to a pair that has one.
C1_NoDuplicateRequest ==
    [][\A u \in Users, s \in DOMAIN skills :
        (last'.op = "request_skill" /\ last'.user = u /\ last'.arg = s)
        => /\ Cardinality(RequestsForAfter(s, u)) <= IF RequestsFor(s, u) = {} THEN 1 ELSE Cardinality(RequestsFor(s, u))
           /\ RequestsFor(s, u) # {}
              => /\ requests' = requests
                 /\ notifications' = notifications
                 /\ IF skills[s] = u
                    THEN last'.level = "error"
                    ELSE /\ last'.level = "info"
                         /\ LET st == requests[First(RequestsFor(s, u))].status
                            IN NamedStatus(last'.msg) = IF st = IN_PROGRESS THEN NULL ELSE st]_vars

\* C1 witness: a requester has just been told about their existing request,
\* which is IN_PROGRESS
C1_Witness ==
    /\ last.op = "request_skill"
    /\ last.level = "info"
    /\ last.arg \in DOMAIN skills
    /\ RequestsFor(last.arg, last.user) # {}
    /\ requests[First(RequestsFor(last.arg, last.user))].status = IN_PROGRESS

\* C2, as stated: an approve or a reject of a request that is not PENDING
\* leaves its status unchanged.
C2_ApproveRejectOnlyFromPending ==
    [][\A r \in DOMAIN requests :
        (Served({"accept_request", "approve_request", "reject_request"}, r)
            /\ requests[r].status # PENDING)
        => requests'[r].status = requests[r].status]_vars

\* C3, as stated: approve, reject and start by anyone but the skill owner, and
\* complete by anyone but the owner or the requester, change nothing of the
\* request, create no notification and are refused.
C3_UnauthorizedIsNoOp ==
    [][\A r \in DOMAIN requests :
        (\/ /\ Served({"accept_request", "approve_request", "reject_request", "start_skill_session"}, r)
            /\ last'.user # SkillOwner(requests[r])
         \/ /\ Served({"complete_skill_session", "complete_request"}, r)
            /\ last'.user \notin {SkillOwner(requests[r]), requests[r].requester})
        => /\ requests'[r] = requests[r]
           /\ notifications' = notifications
           /\ last'.level \in Refusals]_vars

\* C3, amended: accept_request and start_skill_session by anyone but the skill
\* owner, and complete_skill_session and complete_request by anyone but the
\* owner or the requester, change nothing, create no notification and are
\* refused; approve_request and reject_request are staff-only: called by a
\* user who is not staff (the skill owner included) they change nothing and
\* are refused, and called by a staff member they write the status whether or
\* not the caller owns the skill.
C3_UnauthorizedIsNoOpAmended ==
    [][\A r \in DOMAIN requests :
        /\ (\/ /\ Served({"accept_request", "start_skill_session"}, r)
               /\ last'.user # SkillOwner(requests[r])
            \/ /\ Served({"complete_skill_session", "complete_request"}, r)
               /\ last'.user \notin {SkillOwner(requests[r]), requests[r].requester}
            \/ /\ Served({"approve_request", "reject_request"}, r)
               /\ last'.user \notin Staff)
           => /\ requests' = requests
              /\ notifications' = notifications
              /\ last'.level \in Refusals
        /\ (Served({"approve_request"}, r) /\ last'.user \in Staff)
           => requests'[r].status = APPROVED /\ last'.level = "success"
        /\ (Served({"reject_request"}, r) /\ last'.user \in Staff)
           => requests'[r].status = REJECTED /\ last'.level = "success"]_vars

\* C3 witness: a user who is neither the owner nor the requester has just
\* been refused the completion of a session that is in progress
C3_Witness ==
    /\ last.op = "complete_skill_session"
    /\ last.arg \in DOMAIN requests
    /\ last.user \notin {SkillOwner(requests[last.arg]), requests[last.arg].requester}
    /\ requests[last.arg].status = IN_PROGRESS
    /\ last.level = "error"

\* C4: a request becomes IN_PROGRESS only by start_skill_session called by the
\* owner of its skill while it is APPROVED, and that step stamps started_at
\* with the current time; such a call does start the session; a start from
\* any other status leaves the row unchanged and reports an error; no row is
\* created IN_PROGRESS.
C4_StartOnlyFromApproved ==
    [][/\ \A r \in DOMAIN requests :
            /\ (requests'[r].status = IN_PROGRESS /\ requests[r].status # IN_PROGRESS)
               => /\ Served({"start_skill_session"}, r)
                  /\ last'.user = SkillOwner(requests[r])
                  /\ requests[r].status = APPROVED
                  /\ requests'[r].started_at = Stamp(now)
                  /\ requests'[r].started_at # NoTime
            /\ (Served({"start_skill_session"}, r) /\ requests[r].status # APPROVED)
               => /\ requests'[r] = requests[r]
                  /\ last'.level = "error"
            /\ (Served({"start_skill_session"}, r) /\ requests[r].status = APPROVED
                    /\ last'.user = SkillOwner(requests[r]))
               => /\ requests'[r].status = IN_PROGRESS
                  /\ last'.level = "success"
       /\ \A r \in DOMAIN requests' \ DOMAIN requests : requests'[r].status # IN_PROGRESS]_vars

\* C4 witness: the owner has just started a session
C4_Witness ==
    /\ last.op = "start_skill_session"
    /\ last.level = "success"
    /\ last.arg \in DOMAIN requests
    /\ requests[last.arg].status = IN_PROGRESS
    /\ requests[last.arg].started_at # NoTime

\* C5, as stated: a request becomes COMPLETED only when its owner or its
\* requester completes it while it is IN_PROGRESS, and that step sets
\* completed_at.
C5_CompletedOnlyFromInProgress ==
    [][\A r \in DOMAIN requests :
        (requests'[r].status = COMPLETED /\ requests[r].status # COMPLETED)
        => /\ requests[r].status = IN_PROGRESS
           /\ last'.user \in {requests[r].owner, requests[r].requester}
           /\ requests'[r].completed_at # NoTime]_vars

\* the position of a status on PENDING -> APPROVED -> IN_PROGRESS -> COMPLETED
Rank(status) ==
    CASE status = PENDING -> 0
      [] status = APPROVED -> 1
      [] status = IN_PROGRESS -> 2
      [] status = COMPLETED -> 3
      [] OTHER -> 0

\* C6, as stated, in its weakest reading: a status never returns to an
\* earlier one of the chain, REJECTED is entered from PENDING only, and
\* REJECTED and COMPLETED are never left.
C6_StatusMovesForward ==
    [][\A r \in DOMAIN requests :
        \/ requests'[r].status = requests[r].status
        \/ /\ requests[r].status \notin {REJECTED, COMPLETED}
           /\ IF requests'[r].status = REJECTED
              THEN requests[r].status = PENDING
              ELSE Rank(requests'[r].status) > Rank(requests[r].status)]_vars

\* C7, as stated: a successful create, approve, reject, start or complete
\* creates exactly one Notification, for the other party of the request when
\* the caller is its owner or its requester.
C7_OneNotificationToCounterparty ==
    [][\A r \in DOMAIN requests' :
        (/\ last'.level = "success"
         /\ \/ Served({"accept_request", "approve_request", "reject_request", "start_skill_session",
                       "complete_skill_session", "complete_request"}, r)
            \/ /\ last'.op = "request_skill"
               /\ r \notin DOMAIN requests)
        => /\ Len(notifications') = Len(notifications) + 1
           /\ last'.user = requests'[r].owner
              => notifications'[Len(notifications')].user = requests'[r].requester
           /\ last'.user = requests'[r].requester
              => notifications'[Len(notifications')].user = requests'[r].owner]_vars

\* the views that send a message
SendOps == {"send_message", "reply_message", "send_chat_message"}

\* the step just taken served a send of a message with content from a to b
Sent(a, b) ==
    /\ last'.op \in SendOps
    /\ last'.user = a
    /\ last'.arg = b
    /\ last'.msg # "nothing to send"

Blocked(a, b) == BagIn(<<a, b>>, blocks) \/ BagIn(<<b, a>>, blocks)

\* C8, as stated: between two users with no Message, no MessageRequest (and
\* no block), a send by any of the three send views stores a PENDING
\* MessageRequest from the sender to the recipient and no Message.
C8_FirstSendCreatesRequest ==
    [][\A a, b \in Users :
        (Sent(a, b) /\ a # b /\ ~History(a, b) /\ RequestsBetween(a, b) = {} /\ ~Blocked(a, b))
        => /\ message_requests' = message_requests \cup {MsgReq(a, b, "PENDING")}
           /\ messages' = messages]_vars

\* C9, as stated: when B accepts the PENDING MessageRequest of A, the request
\* is ACCEPTED; and with an ACCEPTED request from A to B and no block, a send
\* from A to B succeeds and stores a Message from A to B.
C9_AcceptedThenSendSucceeds ==
    [][\A a, b \in Users :
        /\ (last'.op = "accept_message_request" /\ last'.user = b /\ last'.arg = a
                /\ MsgReq(a, b, "PENDING") \in message_requests)
           => MsgReq(a, b, "ACCEPTED") \in message_requests'
        /\ (Sent(a, b) /\ MsgReq(a, b, "ACCEPTED") \in message_requests /\ ~Blocked(a, b))
           => /\ messages' = Append(messages, Msg(a, b))
              /\ last'.level = "success"]_vars

\* C10, as stated (for two users with no block): a send while a request
\* between them is PENDING stores no Message and reports that the request is
\* pending; while it is DECLINED, no Message and that it was rejected; when
\* it is ACCEPTED, or the two have message history, the send stores a Message.
C10_GateByRequestStatus ==
    [][\A a, b \in Users :
        (Sent(a, b) /\ a # b /\ ~Blocked(a, b))
        => /\ (\E q \in RequestsBetween(a, b) : q.status = "PENDING")
              => messages' = messages /\ last'.msg = "message request is still pending"
           /\ (\E q \in RequestsBetween(a, b) : q.status = "DECLINED")
              => messages' = messages /\ last'.msg = "message request was rejected"
           /\ ((\E q \in RequestsBetween(a, b) : q.status = "ACCEPTED")
                  \/ (RequestsBetween(a, b) = {} /\ History(a, b)))
              => messages' = Append(messages, Msg(a, b))]_vars

\* the views by which the receiver of a MessageRequest answers it
AnswerOps == {"accept_message_request", "reject_message_request", "decline_message_request"}

\* the step just taken served the answer op of user b to the request of a
Answered(op, a, b) ==
    /\ last'.op = op
    /\ last'.user = b
    /\ IF op = "decline_message_request" THEN last'.arg = <<a, b>> ELSE last'.arg = a

\* C11, as stated: a PENDING MessageRequest becomes ACCEPTED or DECLINED only
\* by a call of its receiving user (an accept or a decline, the block of C12
\* included), the receiver's accept makes it ACCEPTED and the receiver's
\* decline makes it DECLINED; one that is ACCEPTED or DECLINED is never PENDING
\* again.
C11_AnswerByReceiverOnly ==
    [][\A a, b \in Users :
        /\ (MsgReq(a, b, "PENDING") \in message_requests /\ MsgReq(a, b, "PENDING") \notin message_requests')
           => /\ last'.user = b
              /\ last'.op \in AnswerOps \cup {"block_user"}
              /\ \/ MsgReq(a, b, "ACCEPTED") \in message_requests'
                 \/ MsgReq(a, b, "DECLINED") \in message_requests'
        /\ (Answered("accept_message_request", a, b) /\ MsgReq(a, b, "PENDING") \in message_requests)
           => MsgReq(a, b, "ACCEPTED") \in message_requests'
        /\ ((Answered("reject_message_request", a, b) \/ Answered("decline_message_request", a, b))
                /\ MsgReq(a, b, "PENDING") \in message_requests)
           => MsgReq(a, b, "DECLINED") \in message_requests'
        /\ (\E st \in {"ACCEPTED", "DECLINED"} : MsgReq(a, b, st) \in message_requests)
           => MsgReq(a, b, "PENDING") \notin message_requests']_vars

\* C12: when A blocks B (the UserBlock is created), every PENDING
\* MessageRequest from B to A becomes DECLINED and every other MessageRequest
\* is left as it was.
C12_BlockDeclinesPending ==
    [][\A a, b \in Users :
        (last'.op = "block_user" /\ last'.user = a /\ last'.arg = b /\ BagIn(<<a, b>>, blocks') /\ ~BagIn(<<a, b>>, blocks))
        => message_requests' =
              {q \in message_requests : ~(q.from_user = b /\ q.to_user = a /\ q.status = "PENDING")}
              \cup {MsgReq(b, a, "DECLINED") : q \in
                       {q2 \in message_requests : q2.from_user = b /\ q2.to_user = a /\ q2.status = "PENDING"}}]_vars

\* C12 witness: A has just blocked B, B's request to A is DECLINED and A's
\* request to B is still PENDING
C12_Witness ==
    /\ last.op = "block_user"
    /\ last.msg = "you have blocked the user"
    /\ BagIn(<<last.user, last.arg>>, blocks)
    /\ MsgReq(last.arg, last.user, "DECLINED") \in message_requests
    /\ MsgReq(last.user, last.arg, "PENDING") \in message_requests

\* C13, as stated: while a UserBlock exists between two users, in either
\* direction, a send from one to the other by any of the three send views
\* stores no Message and reports the block.
C13_BlockedSendRefused ==
    [][\A a, b \in Users :
        (Sent(a, b) /\ Blocked(a, b))
        => /\ messages' = messages
           /\ last'.level = "error"
           /\ last'.msg \in {"you have blocked this user", "this user has blocked you"}]_vars

\* C14: a MeetingForm with a scheduled_date before now, or more than 365 days
\* after now, or a duration below 15 or above 480 minutes (600 for one), is
\* rejected on that field; a date within [now, now + 365 days] and a duration
\* within [15, 480] raise no error on those fields, and the form (its other
\* fields valid) is accepted and stored with that date and duration; a
\* rejected form stores no Meeting and changes none.
C14_MeetingValidation ==
    [][(\/ last'.op = "schedule_meeting"
        \/ last'.op \in {"quick_schedule", "edit_meeting"} /\ last'.level \in {"success", "form"})
        => LET d == last'.arg.scheduled_date
               n == last'.arg.duration_minutes
               dateOk == d >= now /\ d <= now + MaxFutureDays * MinutesPerDay
               durationOk == n >= MinDuration /\ n <= MaxDuration
           IN /\ ("scheduled_date" \in last'.arg.errors) <=> ~dateOk
              /\ ("duration_minutes" \in last'.arg.errors) <=> ~durationOk
              /\ (~dateOk \/ ~durationOk) => (meetings' = meetings /\ last'.level # "success")
              /\ (dateOk /\ durationOk /\ last'.arg.errors \subseteq {"scheduled_date", "duration_minutes"})
                 => /\ last'.level = "success"
                    /\ IF last'.op = "edit_meeting"
                       THEN \E m \in DOMAIN meetings :
                               /\ meetings'[m].scheduled_date = d
                               /\ meetings'[m].duration_minutes = n
                       ELSE /\ Len(meetings') = Len(meetings) + 1
                            /\ meetings'[Len(meetings')].scheduled_date = d
                            /\ meetings'[Len(meetings')].duration_minutes = n
              /\ last'.level # "success" => meetings' = meetings]_vars

\* (the calls left out are those no form is validated in: a URL that names no
\* user or no meeting, a caller who is not staff)

\* C14 witness: a meeting of the longest duration on the last day allowed has
\* just been stored
C14_Witness ==
    /\ last.op = "schedule_meeting"
    /\ last.level = "success"
    /\ \E m \in DOMAIN meetings :
          /\ meetings[m].scheduled_date = now + MaxFutureDays * MinutesPerDay
          /\ meetings[m].duration_minutes = MaxDuration

\* the Notification rows the step just taken has created
Created == SubSeq(notifications', Len(notifications) + 1, Len(notifications'))

\* C15, as stated: a successful schedule_meeting or quick_schedule creates
\* exactly one meeting-invite Notification for each participant of the new
\* meeting other than its organizer, and no other Notification.
C15_OneInvitePerParticipant ==
    [][(last'.op \in {"schedule_meeting", "quick_schedule"} /\ last'.level = "success")
        => LET meeting == meetings'[Len(meetings')]
               invited == meeting.participants \ {meeting.organizer}
           IN /\ Len(Created) = Cardinality(invited)
              /\ \A p \in invited :
                    \E i \in DOMAIN Created : Created[i] = Notif(p, "meeting_invite")]_vars

\* C16, as stated: no Meeting has its organizer among its participants.
C16_OrganizerNotParticipant ==
    \A m \in DOMAIN meetings : meetings[m].organizer \notin meetings[m].participants

\* the step just taken served update_meeting_status for meeting m
StatusCall(m) == last'.op = "update_meeting_status" /\ last'.arg[1] = m

\* C17: a meeting's status changes only by update_meeting_status called by
\* its organizer or one of its participants with one of scheduled, confirmed,
\* cancelled, completed, and such a call sets the status to the one given
\* whatever it was; any other call leaves the meeting as it was; the status
\* of every meeting is one of the four.
C17_StatusUpdate ==
    [][/\ \A m \in DOMAIN meetings :
            LET allowed == last'.user = meetings[m].organizer \/ last'.user \in meetings[m].participants
            IN /\ meetings'[m].status # meetings[m].status
                  => /\ StatusCall(m)
                     /\ allowed
                     /\ last'.arg[2] \in MeetingStatuses
               /\ (StatusCall(m) /\ allowed /\ last'.arg[2] \in MeetingStatuses)
                  => meetings'[m].status = last'.arg[2] /\ last'.level = "success"
               /\ (StatusCall(m) /\ ~(allowed /\ last'.arg[2] \in MeetingStatuses))
                  => meetings'[m] = meetings[m] /\ last'.level # "success"
       /\ \A m \in DOMAIN meetings' : meetings'[m].status \in MeetingStatuses]_vars

\* C17 witness: a participant who is not the organizer has just cancelled a
\* meeting
C17_Witness ==
    /\ last.op = "update_meeting_status"
    /\ last.level = "success"
    /\ last.arg[1] \in DOMAIN meetings
    /\ last.arg[2] = "cancelled"
    /\ meetings[last.arg[1]].status = "cancelled"
    /\ last.user # meetings[last.arg[1]].organizer
    /\ last.user \in meetings[last.arg[1]].participants

\* C18: when user u marks the messages of user x as read, through
\* mark_messages_read or by opening the conversation in chat_dashboard,
\* exactly the unread messages from x to u become read and every other
\* Message row is left as it was.
C18_MarkReadFrame ==
    [][\A u, x \in Users :
        (last'.op \in {"mark_messages_read", "chat_dashboard"} /\ last'.user = u /\ last'.arg = x)
        => /\ DOMAIN messages' = DOMAIN messages
           /\ \A i \in DOMAIN messages :
                 IF messages[i].from_user = x /\ messages[i].to_user = u /\ ~messages[i].is_read
                 THEN messages'[i] = [messages[i] EXCEPT !.is_read = TRUE]
                 ELSE messages'[i] = messages[i]]_vars

\* C18 witness: u has just marked the messages of x as read; a message from
\* x to u is read and a message from u to x is still unread
C18_Witness ==
    /\ last.op = "mark_messages_read"
    /\ last.level = "success"
    /\ \E i, j \in DOMAIN messages :
          /\ messages[i].from_user = last.arg /\ messages[i].to_user = last.user /\ messages[i].is_read
          /\ messages[j].from_user = last.user /\ messages[j].to_user = last.arg /\ ~messages[j].is_read
          /\ last.user # last.arg

\* the views of the skill-request workflow that call a notify_* function, and
\* with it send_email_notification
NotifyingOps ==
    {"create_skill", "request_skill", "accept_request", "start_skill_session", "complete_skill_session"}

C20_CheckedCallWrites ==
    [][\A p \in Workers :
        (pc[p] # <<>> /\ pc'[p] = <<>>)
        => /\ Len(requests') = Len(requests) + 1
           /\ requests'[Len(requests')] = ReqRow(pc[p][2], pc[p][1], skills[pc[p][2]], PENDING)
           /\ Cardinality(RequestsForAfter(pc[p][2], pc[p][1]))
                 = Cardinality(RequestsFor(pc[p][2], pc[p][1])) + 1
           /\ last'.level = "success"]_vars

\* C20 witness: two calls for the same pair have both written: the pair has
\* two SkillRequest rows and no call is in flight
C20_Witness ==
    /\ last.op = "request_skill"
    /\ last.level = "success"
    /\ pc = Idle
    /\ users = Users
    /\ reviews = <<>>
    /\ \E i, j \in DOMAIN requests :
          /\ i # j
          /\ requests[i].skill = requests[j].skill
          /\ requests[i].requester = requests[j].requester

\* C21, as stated: with start, approve and reject calls on one SkillRequest
\* served at the same time, a status is written only while the stored status
\* satisfies the precondition of the transition: a request becomes
\* IN_PROGRESS only from APPROVED, so one that was rejected meanwhile is not
\* overwritten.
C21_WriteChecksStoredStatus ==
    [][\A r \in DOMAIN requests :
        (requests'[r].status = IN_PROGRESS /\ requests[r].status # IN_PROGRESS)
        => requests[r].status = APPROVED]_vars

C28_NoSelfBlock ==
    \A pair \in BagToSet(blocks) : pair[1] # pair[2]

\* C30: unblock_user removes the UserBlock row (caller, target) and nothing
\* else: the block in the reverse direction, every other block and every
\* MessageRequest are as before, a DECLINED request stays DECLINED, and
\* unblocking a user who was not blocked changes nothing.
C30_UnblockFrame ==
    [][\A u, target \in Users :
        (last'.op = "unblock_user" /\ last'.user = u /\ last'.arg = target)
        => /\ ~BagIn(<<u, target>>, blocks')
           /\ \A pair \in (Users \X Users) \ {<<u, target>>} :
                 CopiesIn(pair, blocks') = CopiesIn(pair, blocks)
           /\ message_requests' = message_requests
           /\ messages' = messages
           /\ ~BagIn(<<u, target>>, blocks) => blocks' = blocks]_vars

\* C30 witness: u has just unblocked the target, who still blocks u, and the
\* target's request to u is still DECLINED
C30_Witness ==
    /\ last.op = "unblock_user"
    /\ last.level = "success"
    /\ last.user # last.arg
    /\ ~BagIn(<<last.user, last.arg>>, blocks)
    /\ BagIn(<<last.arg, last.user>>, blocks)
    /\ MsgReq(last.arg, last.user, "DECLINED") \in message_requests

\* C27, as stated: a successful create_skill creates exactly one Notification
\* for each active user other than the owner of the skill, and none for the
\* owner.
C27_OneNotificationPerOtherUser ==
    [][(last'.op = "create_skill" /\ last'.level = "success")
        => /\ Len(Created) = Cardinality(Users \ {last'.user})
           /\ \A u \in Users \ {last'.user} :
                 \E i \in DOMAIN Created : Created[i] = Notif(u, "new_skill")
           /\ \A i \in DOMAIN Created : Created[i].user # last'.user]_vars

\* C29, as stated: every SkillRequest has a requester other than its owner,
\* and its owner is the owner of its skill.
C29_RequesterIsNotOwner ==
    \A r \in DOMAIN requests :
        /\ requests[r].requester # requests[r].owner
        /\ requests[r].owner = SkillOwner(requests[r])

\* C26: send_chat_message checks the blocks before it looks up the
\* MessageRequest: a send with content between two users with a block is
\* refused as blocked whatever MessageRequest and Message exist between them,
\* with "you have blocked this user" when the sender blocks the recipient
\* (also when each blocks the other) and "this user has blocked you" when only
\* the recipient blocks the sender; nothing is stored.
C26_BlockCheckedFirst ==
    [][\A a, b \in Users :
        (last'.op = "send_chat_message" /\ last'.user = a /\ last'.arg = b
            /\ last'.msg # "nothing to send" /\ Blocked(a, b))
        => /\ last'.level = "error"
           /\ last'.msg = IF BagIn(<<a, b>>, blocks) THEN "you have blocked this user"
                          ELSE "this user has blocked you"
           /\ messages' = messages
           /\ message_requests' = message_requests]_vars

\* C26 witness: two users who block each other, with an ACCEPTED request and
\* a Message between them, and the sender has been told that they block the
\* recipient
C26_Witness ==
    /\ last.op = "send_chat_message"
    /\ last.msg = "you have blocked this user"
    /\ last.user # last.arg
    /\ BagIn(<<last.user, last.arg>>, blocks)
    /\ BagIn(<<last.arg, last.user>>, blocks)
    /\ History(last.user, last.arg)
    /\ \E q \in RequestsBetween(last.user, last.arg) : q.status = "ACCEPTED"

\* the step just taken left every table of the store as it was
StoreUnchanged ==
    /\ users' = users
    /\ meetings' = meetings
    /\ skills' = skills
    /\ requests' = requests
    /\ reviews' = reviews
    /\ messages' = messages
    /\ blocks' = blocks
    /\ message_requests' = message_requests
    /\ notifications' = notifications

\* C23: delete_account is all or nothing: either the caller is a participant
\* of no meeting any more and the caller's User row is deleted, or, when a
\* step failed, the users, the meetings with their participants and every
\* other table are as before.
C23_DeleteAllOrNothing ==
    [][\A u \in Users :
        (last'.op = "delete_account" /\ last'.user = u)
        => \/ /\ last'.level = "success"
              /\ u \notin users'
              /\ \A m \in DOMAIN meetings' : u \notin meetings'[m].participants
           \/ /\ last'.level = "error"
              /\ StoreUnchanged]_vars

\* C23 witness: a delete_account has failed, and the caller still has the
\* account and a participation
C23_Witness ==
    /\ last.op = "delete_account"
    /\ last.level = "error"
    /\ last.user \in users
    /\ \E m \in DOMAIN meetings : last.user \in meetings[m].participants

\* the rows of the table before the step are its first rows after it
Appended == Len(notifications') >= Len(notifications)
            /\ SubSeq(notifications', 1, Len(notifications)) = notifications

\* the step removed exactly the rows created before now - days
Pruned(days) ==
    notifications' = SelectSeq(notifications, LAMBDA n : n.created_at >= now - timedelta(days))

C25_RatingInRange ==
    \A r \in DOMAIN reviews : reviews[r].rating \in 0..5

====
